---- MODULE Spec2Model ----
(***************************************************************************)
(* Model of the beam-tracing engine of src/y2023/d16.rs.                   *)
(*                                                                         *)
(* One ContraptionMap object (map) is parsed from the input lines.  The    *)
(* recursion of shoot_beam and the calls made by                           *)
(* get_amount_of_energized_tiles, get_most_amount_of_energized_tiles and   *)
(* solve_part_one are kept on an explicit call stack (stack), one frame    *)
(* per active function, the last element being the running function.      *)
(* ret holds what the last function that returned a value returned, and    *)
(* calls logs the get_amount_of_energized_tiles calls made by the running  *)
(* get_most_amount_of_energized_tiles.                                     *)
(***************************************************************************)
EXTENDS Integers, Sequences, FiniteSets, TLC

VARIABLES input, map, stack, ret, calls, stack2, ret2,
          platform, spin, almanac, bricks, image

vars == <<input, map, stack, ret, calls, stack2, ret2,
          platform, spin, almanac, bricks, image>>

\* the call stack and the last return value of a second caller of the map's
\* methods, used only where two traces are interleaved
second == <<stack2, ret2>>

\* the state of a program that is not the one running
NotLoaded == [loaded |-> FALSE]

\* y2023/d14.rs: the Platform, and the position of its caller in
\* run_spin_cycle
D14Idle == platform = NotLoaded /\ spin = NotLoaded

\* y2023/d05.rs: the intervals and the almanac applied to them
D05Idle == almanac = NotLoaded

\* day22.rs: the bricks
D22Idle == bricks = NotLoaded

\* day11.rs: the image
D11Idle == image = NotLoaded

d16vars == <<input, map, stack, ret, calls, stack2, ret2>>

d14vars == <<platform, spin>>

\* the programs other than y2023/d16.rs
elsewhere == <<d14vars, almanac, bricks, image>>

ElsewhereIdle == D14Idle /\ D05Idle /\ D22Idle /\ D11Idle

----------------------------------------------------------------------------
(* Bounds of the model *)

MaxRows == 2

MaxColumns == 2

MaxCells == 4

MaxInterleavedCells == 2

MaxLines == 2

MaxLineLength == 2

MaxPlatformRows == 4

MaxPlatformColumns == 4

MaxPlatformCells == 6

MaxCycles == 3
MaxNumberOfCycles == 4

MaxSeed == 3

MaxTransformValue == 2

MaxTransformLength == 2

MaxTransforms == 2

MaxBricks == 3

MaxBrickXY == 1

MaxBrickZ == 3

MaxBrickExtent == 1

MaxImageRows == 3

MaxImageColumns == 3

----------------------------------------------------------------------------
(* Directions, points, terrain (d16.rs:7-54, grid::Point) *)

North == "North"

East == "East"

South == "South"

West == "West"

Direction == {North, East, South, West}

Chars == {".", "/", "\\", "|", "-"}

Point_new(x, y) == [x |-> x, y |-> y]

\* grid::Point::move_to: one cell in the direction; y grows to the South
\* (the expected energy map of solve_part_one fixes the orientation).
move_to(point, direction) ==
    CASE direction = North -> Point_new(point.x, point.y - 1)
      [] direction = East  -> Point_new(point.x + 1, point.y)
      [] direction = South -> Point_new(point.x, point.y + 1)
      [] direction = West  -> Point_new(point.x - 1, point.y)

TerrainType_from_char(c) ==
    CASE c = "."  -> "EmptySpace"
      [] c = "/"  -> "NorthEastMirror"
      [] c = "\\" -> "NorthWestMirror"
      [] c = "|"  -> "NorthSouthSplitter"
      [] c = "-"  -> "EastWestSplitter"

Terrain_from_char(c) ==
    [the_type |-> TerrainType_from_char(c), beams |-> <<>>, energized |-> FALSE]

\* A plausible slip: the two mirrors' tables swapped for a northbound beam.
redirect_swapped(the_type, beam) ==
    CASE the_type = "NorthEastMirror" /\ beam = North -> <<West>>
      [] the_type = "NorthEastMirror" /\ beam = East  -> <<North>>
      [] the_type = "NorthEastMirror" /\ beam = South -> <<West>>
      [] the_type = "NorthEastMirror" /\ beam = West  -> <<South>>
      [] the_type = "NorthWestMirror" /\ beam = North -> <<East>>
      [] the_type = "NorthWestMirror" /\ beam = East  -> <<South>>
      [] the_type = "NorthWestMirror" /\ beam = South -> <<East>>
      [] the_type = "NorthWestMirror" /\ beam = West  -> <<North>>
      [] the_type = "NorthSouthSplitter" /\ beam \in {East, West} -> <<North, South>>
      [] the_type = "EastWestSplitter" /\ beam \in {North, South} -> <<East, West>>
      [] OTHER -> <<beam>>

\* A plausible slip: a splitter sending a beam to its first output only.
redirect_first_output_only(the_type, beam) ==
    CASE the_type = "NorthEastMirror" /\ beam = North -> <<East>>
      [] the_type = "NorthEastMirror" /\ beam = East  -> <<North>>
      [] the_type = "NorthEastMirror" /\ beam = South -> <<West>>
      [] the_type = "NorthEastMirror" /\ beam = West  -> <<South>>
      [] the_type = "NorthWestMirror" /\ beam = North -> <<West>>
      [] the_type = "NorthWestMirror" /\ beam = East  -> <<South>>
      [] the_type = "NorthWestMirror" /\ beam = South -> <<East>>
      [] the_type = "NorthWestMirror" /\ beam = West  -> <<North>>
      [] the_type = "NorthSouthSplitter" /\ beam \in {East, West} -> <<North>>
      [] the_type = "EastWestSplitter" /\ beam \in {North, South} -> <<East>>
      [] OTHER -> <<beam>>

redirect(the_type, beam) ==
    CASE the_type = "NorthEastMirror" /\ beam = North -> <<East>>
      [] the_type = "NorthEastMirror" /\ beam = East  -> <<North>>
      [] the_type = "NorthEastMirror" /\ beam = South -> <<West>>
      [] the_type = "NorthEastMirror" /\ beam = West  -> <<South>>
      [] the_type = "NorthWestMirror" /\ beam = North -> <<West>>
      [] the_type = "NorthWestMirror" /\ beam = East  -> <<South>>
      [] the_type = "NorthWestMirror" /\ beam = South -> <<East>>
      [] the_type = "NorthWestMirror" /\ beam = West  -> <<North>>
      [] the_type = "NorthSouthSplitter" /\ beam \in {East, West} -> <<North, South>>
      [] the_type = "EastWestSplitter" /\ beam \in {North, South} -> <<East, West>>
      [] OTHER -> <<beam>>

----------------------------------------------------------------------------
(* ContraptionMap (d16.rs:56-117) *)

\* a panic, in place of the value the function would have returned
Panic(message) == [panic |-> message]

IsPanic(v) == "panic" \in DOMAIN v

\* input is the Vec<String> of lines, a line being the sequence of its chars.
\* Line 78: first() of a grid with no row is None, and unwrap panics.
from_strings(lines) ==
    LET kept == SelectSeq(lines, LAMBDA s : s # <<>>)
        grid == [r \in 1..Len(kept) |->
                    [k \in 1..Len(kept[r]) |-> Terrain_from_char(kept[r][k])]]
    IN  IF Len(grid) = 0
        THEN Panic("unwrap on None")
        ELSE [rows    |-> Len(grid),
              columns |-> Len(grid[1]),
              grid    |-> grid,
              visited |-> {}]

parse(lines) == from_strings(lines)

get_terrain(m, point) == m.grid[point.y + 1][point.x + 1]

\* get_terrain_mut followed by the writes made through the reference
set_terrain(m, point, t) == [m EXCEPT !.grid[point.y + 1][point.x + 1] = t]

TerrainType_to_char(t) ==
    CASE t = "EmptySpace"         -> "."
      [] t = "NorthEastMirror"    -> "/"
      [] t = "NorthWestMirror"    -> "\\"
      [] t = "NorthSouthSplitter" -> "|"
      [] t = "EastWestSplitter"   -> "-"

\* the lines of the map, before they are joined
get_terrain_map(m) ==
    [r \in 1..Len(m.grid) |->
        [k \in 1..Len(m.grid[r]) |-> TerrainType_to_char(m.grid[r][k].the_type)]]

get_energy_map(m) ==
    [r \in 1..Len(m.grid) |->
        [k \in 1..Len(m.grid[r]) |-> IF m.grid[r][k].energized THEN "#" ELSE "."]]

\* A plausible slip: the origin column and row excluded.
within_grid_off_by_one(m, point) ==
    point.x > 0 /\ point.x < m.columns /\ point.y > 0 /\ point.y < m.rows

\* A plausible slip: the bounds compared with <=.
within_grid_inclusive(m, point) ==
    point.x >= 0 /\ point.x <= m.columns /\ point.y >= 0 /\ point.y <= m.rows

within_grid(m, point) ==
    point.x >= 0 /\ point.x < m.columns /\ point.y >= 0 /\ point.y < m.rows

----------------------------------------------------------------------------
(* The call stack *)

Top(st) == st[Len(st)]

Pop(st) == SubSeq(st, 1, Len(st) - 1)

ReplaceTop(st, f) == [st EXCEPT ![Len(st)] = f]

Contains(seq, e) == \E k \in 1..Len(seq) : seq[k] = e

NoReturn == [fn |-> "none"]

shoot_beam_frame(from, beam) ==
    [fn |-> "shoot_beam", from |-> from, beam |-> beam, pc |-> "enter",
     redirected_beams |-> <<>>, i |-> 0]

----------------------------------------------------------------------------
(* shoot_beam (d16.rs:119-141), one step per entry of a call and per        *)
(* iteration of its for loop.  A configuration c is the record             *)
(* [map, stack, ret, calls]; each operator gives the configuration after   *)
(* the step of the function on top of the stack.                           *)

\* A plausible slip: no check of the beams already recorded in the cell.
shoot_beam_enter_without_cycle_check(c) ==
    LET f    == Top(c.stack)
        from == f.from
        beam == f.beam
    IN  IF within_grid(c.map, from)
        THEN LET m1 == [c.map EXCEPT !.visited = @ \cup {from}]
                 current_terrain == get_terrain(m1, from)
                 t2 == [current_terrain EXCEPT
                           !.beams = Append(@, beam),
                           !.energized = TRUE]
             IN  [c EXCEPT
                    !.map = set_terrain(m1, from, t2),
                    !.stack = ReplaceTop(@,
                        [f EXCEPT !.pc = "loop",
                                  !.redirected_beams = redirect(t2.the_type, beam),
                                  !.i = 0])]
        ELSE [c EXCEPT !.stack = Pop(@)]

\* A plausible slip: a cell already energized taken for a beam state already
\* processed, whatever the direction.
shoot_beam_enter_skips_energized_cells(c) ==
    LET f    == Top(c.stack)
        from == f.from
        beam == f.beam
    IN  IF within_grid(c.map, from)
        THEN LET m1 == [c.map EXCEPT !.visited = @ \cup {from}]
                 current_terrain == get_terrain(m1, from)
             IN  IF ~current_terrain.energized
                 THEN LET t2 == [current_terrain EXCEPT
                                    !.beams = Append(@, beam),
                                    !.energized = TRUE]
                      IN  [c EXCEPT
                             !.map = set_terrain(m1, from, t2),
                             !.stack = ReplaceTop(@,
                                 [f EXCEPT !.pc = "loop",
                                           !.redirected_beams = redirect(t2.the_type, beam),
                                           !.i = 0])]
                 ELSE [c EXCEPT !.map = m1, !.stack = Pop(@)]
        ELSE [c EXCEPT !.stack = Pop(@)]

\* A plausible slip: the position recorded as visited before the bounds check.
shoot_beam_enter_marks_before_bounds_check(c) ==
    LET f    == Top(c.stack)
        from == f.from
        beam == f.beam
        m1   == [c.map EXCEPT !.visited = @ \cup {from}]
    IN  IF within_grid(c.map, from)
        THEN LET current_terrain == get_terrain(m1, from)
             IN  IF ~Contains(current_terrain.beams, beam)
                 THEN LET t2 == [current_terrain EXCEPT
                                    !.beams = Append(@, beam),
                                    !.energized = TRUE]
                      IN  [c EXCEPT
                             !.map = set_terrain(m1, from, t2),
                             !.stack = ReplaceTop(@,
                                 [f EXCEPT !.pc = "loop",
                                           !.redirected_beams = redirect(t2.the_type, beam),
                                           !.i = 0])]
                 ELSE [c EXCEPT !.map = m1, !.stack = Pop(@)]
        ELSE [c EXCEPT !.map = m1, !.stack = Pop(@)]

\* lines 120-132: from the entry of the call to the start of the for loop
shoot_beam_enter(c) ==
    LET f    == Top(c.stack)
        from == f.from
        beam == f.beam
    IN  IF within_grid(c.map, from)
        THEN LET m1 == [c.map EXCEPT !.visited = @ \cup {from}]
                 current_terrain == get_terrain(m1, from)
             IN  IF ~Contains(current_terrain.beams, beam)
                 THEN LET t2 == [current_terrain EXCEPT
                                    !.beams = Append(@, beam),
                                    !.energized = TRUE]
                      IN  [c EXCEPT
                             !.map = set_terrain(m1, from, t2),
                             !.stack = ReplaceTop(@,
                                 [f EXCEPT !.pc = "loop",
                                           !.redirected_beams = redirect(t2.the_type, beam),
                                           !.i = 0])]
                 ELSE [c EXCEPT !.map = m1, !.stack = Pop(@)]
        ELSE [c EXCEPT !.stack = Pop(@)]

\* A plausible slip: the next point taken along the incoming beam, not along
\* the redirected one.
shoot_beam_loop_moves_along_incoming(c) ==
    LET f == Top(c.stack)
    IN  IF f.i < Len(f.redirected_beams)
        THEN LET redirected_beam == f.redirected_beams[f.i + 1]
                 next == move_to(f.from, f.beam)
             IN  [c EXCEPT !.stack =
                     Append(ReplaceTop(@, [f EXCEPT !.i = @ + 1]),
                            shoot_beam_frame(next, redirected_beam))]
        ELSE [c EXCEPT !.stack = Pop(@)]

\* lines 133-140: one iteration of the for loop (the recursive call), or the
\* return once the redirected beams are exhausted
shoot_beam_loop(c) ==
    LET f == Top(c.stack)
    IN  IF f.i < Len(f.redirected_beams)
        THEN LET redirected_beam == f.redirected_beams[f.i + 1]
                 next == move_to(f.from, redirected_beam)
             IN  [c EXCEPT !.stack =
                     Append(ReplaceTop(@, [f EXCEPT !.i = @ + 1]),
                            shoot_beam_frame(next, redirected_beam))]
        ELSE [c EXCEPT !.stack = Pop(@)]

----------------------------------------------------------------------------
(* get_amount_of_energized_tiles (d16.rs:143-153) *)

\* A plausible slip: visited left as it was (line 150 forgotten).
reset_keeps_visited(m) ==
    [m EXCEPT
        !.grid = [r \in 1..Len(m.grid) |->
                    [k \in 1..Len(m.grid[r]) |->
                        [m.grid[r][k] EXCEPT !.energized = FALSE, !.beams = <<>>]]]]

\* A plausible slip: each cell rebuilt as a new empty terrain.
reset_rebuilds_cells(m) ==
    [m EXCEPT
        !.grid = [r \in 1..Len(m.grid) |->
                    [k \in 1..Len(m.grid[r]) |-> Terrain_from_char(".")]],
        !.visited = {}]

\* lines 144-150: every cell's energized flag and beams, and visited, cleared
reset(m) ==
    [m EXCEPT
        !.grid = [r \in 1..Len(m.grid) |->
                    [k \in 1..Len(m.grid[r]) |->
                        [m.grid[r][k] EXCEPT !.energized = FALSE, !.beams = <<>>]]],
        !.visited = {}]

\* the call, lines 144-151: reset, then shoot_beam is entered; the call has
\* returned nothing yet
get_amount_of_energized_tiles_call(c, point, beam) ==
    [c EXCEPT
        !.map = reset(c.map),
        !.ret = NoReturn,
        !.stack = @ \o <<[fn |-> "get_amount_of_energized_tiles",
                          point |-> point, beam |-> beam],
                         shoot_beam_frame(point, beam)>>]

\* line 152: shoot_beam has returned
get_amount_of_energized_tiles_return(c) ==
    LET f == Top(c.stack)
    IN  [c EXCEPT
            !.stack = Pop(@),
            !.ret = [fn |-> "get_amount_of_energized_tiles",
                     point |-> f.point, beam |-> f.beam,
                     value |-> Cardinality(c.map.visited)]]

----------------------------------------------------------------------------
(* get_most_amount_of_energized_tiles (d16.rs:155-178) *)

max(a, b) == IF a >= b THEN a ELSE b

get_most_frame ==
    [fn |-> "get_most_amount_of_energized_tiles", most |-> 0, i |-> 0,
     pc |-> "columns"]

\* a call of get_amount_of_energized_tiles made by the maximizer, logged
most_call(c, f, point, beam) ==
    LET c1 == [c EXCEPT !.stack = ReplaceTop(@, f),
                        !.calls = Append(@, [point |-> point, beam |-> beam])]
    IN  get_amount_of_energized_tiles_call(c1, point, beam)

\* line 167: head of the second loop, and line 177 after it
most_rows_head(c, f) ==
    IF f.i < c.map.rows
    THEN most_call(c, [f EXCEPT !.pc = "east"], Point_new(0, f.i), East)
    ELSE [c EXCEPT !.stack = Pop(@),
                   !.ret = [fn |-> "get_most_amount_of_energized_tiles",
                            value |-> f.most]]

\* line 157: head of the first loop
most_columns_head(c, f) ==
    IF f.i < c.map.columns
    THEN most_call(c, [f EXCEPT !.pc = "south"], Point_new(f.i, 0), South)
    ELSE most_rows_head(c, [f EXCEPT !.i = 0])

\* A plausible slip: most overwritten by each count instead of max(most, count).
get_most_amount_of_energized_tiles_step_keeps_last(c) ==
    LET f  == Top(c.stack)
        f1 == IF f.pc = "columns" THEN f
              ELSE [f EXCEPT !.most = c.ret.value]
    IN  CASE f.pc = "columns" -> most_columns_head(c, f1)
          [] f.pc = "south" ->
                most_call(c, [f1 EXCEPT !.pc = "north"],
                          Point_new(f.i, c.map.rows - 1), North)
          [] f.pc = "north" -> most_columns_head(c, [f1 EXCEPT !.i = @ + 1])
          [] f.pc = "east" ->
                most_call(c, [f1 EXCEPT !.pc = "west"],
                          Point_new(0, c.map.columns - 1), West)
          [] f.pc = "west" -> most_rows_head(c, [f1 EXCEPT !.i = @ + 1])

\* the maximizer resumes: at its start, or with the value of the call it made
get_most_amount_of_energized_tiles_step(c) ==
    LET f  == Top(c.stack)
        f1 == IF f.pc = "columns" THEN f
              ELSE [f EXCEPT !.most = max(@, c.ret.value)]
    IN  CASE f.pc = "columns" -> most_columns_head(c, f1)
          [] f.pc = "south" ->
                most_call(c, [f1 EXCEPT !.pc = "north"],
                          Point_new(f.i, c.map.rows - 1), North)
          [] f.pc = "north" -> most_columns_head(c, [f1 EXCEPT !.i = @ + 1])
          [] f.pc = "east" ->
                most_call(c, [f1 EXCEPT !.pc = "west"],
                          Point_new(0, c.map.columns - 1), West)
          [] f.pc = "west" -> most_rows_head(c, [f1 EXCEPT !.i = @ + 1])

----------------------------------------------------------------------------
(* Problem::solve_part_one, solve_part_two (d16.rs:216-250) *)

\* lines 217-218: the map is parsed and shoot_beam entered, with no reset
solve_part_one_call(c, lines) ==
    IF IsPanic(parse(lines))
    THEN [c EXCEPT !.map = parse(lines), !.ret = [fn |-> "panic", caller |-> "solve_part_one"]]
    ELSE [c EXCEPT
            !.map = parse(lines),
            !.stack = @ \o <<[fn |-> "solve_part_one", pc |-> "shoot"],
                             shoot_beam_frame(Point_new(0, 0), East)>>]

\* line 219 once shoot_beam has returned; line 243 once the count is there
solve_part_one_step(c) ==
    LET f == Top(c.stack)
    IN  IF f.pc = "shoot"
        THEN get_amount_of_energized_tiles_call(
                 [c EXCEPT !.stack = ReplaceTop(@, [f EXCEPT !.pc = "amount"])],
                 Point_new(0, 0), East)
        ELSE [c EXCEPT !.stack = Pop(@),
                       !.ret = [fn |-> "solve_part_one", value |-> c.ret.value]]

\* lines 247-248
solve_part_two_call(c, lines) ==
    IF IsPanic(parse(lines))
    THEN [c EXCEPT !.map = parse(lines), !.ret = [fn |-> "panic", caller |-> "solve_part_two"]]
    ELSE [c EXCEPT
            !.map = parse(lines),
            !.stack = @ \o <<[fn |-> "solve_part_two"], get_most_frame>>]

\* line 249
solve_part_two_return(c) ==
    [c EXCEPT !.stack = Pop(@),
              !.ret = [fn |-> "solve_part_two", value |-> c.ret.value]]

----------------------------------------------------------------------------
(* The step of whichever function is running, and a run to completion *)

Step(c) ==
    LET f == Top(c.stack)
    IN  CASE f.fn = "shoot_beam" /\ f.pc = "enter" -> shoot_beam_enter(c)
          [] f.fn = "shoot_beam" /\ f.pc = "loop" -> shoot_beam_loop(c)
          [] f.fn = "get_amount_of_energized_tiles" ->
                get_amount_of_energized_tiles_return(c)
          [] f.fn = "get_most_amount_of_energized_tiles" ->
                get_most_amount_of_energized_tiles_step(c)
          [] f.fn = "solve_part_one" -> solve_part_one_step(c)
          [] f.fn = "solve_part_two" -> solve_part_two_return(c)

RECURSIVE Run(_)
Run(c) == IF c.stack = <<>> THEN c ELSE Run(Step(c))

----------------------------------------------------------------------------
(* The state machine *)

Cfg == [map |-> map, stack |-> stack, ret |-> ret, calls |-> calls]

Becomes(c) ==
    /\ map' = c.map
    /\ stack' = c.stack
    /\ ret' = c.ret
    /\ calls' = c.calls
    /\ UNCHANGED <<input, second, elsewhere>>

\* a caller that starts with nothing returned yet and nothing logged
Idle == [Cfg EXCEPT !.ret = NoReturn, !.calls = <<>>]

Running(fn) == stack # <<>> /\ Top(stack).fn = fn

\* rectangular inputs of at most MaxRows x MaxColumns and MaxCells cells
Inputs ==
    UNION {[1..r -> [1..k -> Chars]] :
             <<r, k>> \in {rk \in (1..MaxRows) \X (1..MaxColumns) :
                              rk[1] * rk[2] <= MaxCells}}

Cells(m) == {Point_new(x, y) : x \in 0..(m.columns - 1), y \in 0..(m.rows - 1)}

\* entries a caller may pass: every cell and every point one move outside the grid
Entries(m) ==
    LET cells == {Point_new(x, y) : x \in 0..(m.columns - 1), y \in 0..(m.rows - 1)}
    IN  cells \cup {move_to(p, d) : p \in cells, d \in Direction}

\* the example of define_examples (d16.rs:198-214), one line per row
Example ==
    << <<".", "|", ".", ".", ".", "\\", ".", ".", ".", ".">>,
       <<"|", ".", "-", ".", "\\", ".", ".", ".", ".", ".">>,
       <<".", ".", ".", ".", ".", "|", "-", ".", ".", ".">>,
       <<".", ".", ".", ".", ".", ".", ".", ".", "|", ".">>,
       <<".", ".", ".", ".", ".", ".", ".", ".", ".", ".">>,
       <<".", ".", ".", ".", ".", ".", ".", ".", ".", "\\">>,
       <<".", ".", ".", ".", "/", ".", "\\", "\\", ".", ".">>,
       <<".", "-", ".", "-", "/", ".", ".", "|", ".", ".">>,
       <<".", "|", ".", ".", ".", ".", "-", "|", ".", "\\">>,
       <<".", ".", "/", "/", ".", "|", ".", ".", ".", ".">> >>

\* the map is parsed from a small rectangular input or from the example
Init ==
    /\ input \in Inputs \cup {Example}
    /\ map = parse(input)
    /\ stack = <<>>
    /\ ret = NoReturn
    /\ calls = <<>>
    /\ stack2 = <<>>
    /\ ret2 = NoReturn
    /\ ElsewhereIdle

SolvePartOne ==
    /\ stack = <<>>
    /\ Becomes(solve_part_one_call(Idle, input))

SolvePartTwo ==
    /\ stack = <<>>
    /\ Becomes(solve_part_two_call(Idle, input))

GetAmountOfEnergizedTiles ==
    /\ stack = <<>>
    /\ \E point \in Entries(map), beam \in Direction :
          Becomes(get_amount_of_energized_tiles_call(Idle, point, beam))

GetMostAmountOfEnergizedTiles ==
    /\ stack = <<>>
    /\ Becomes([Idle EXCEPT !.stack = <<get_most_frame>>])

ShootBeamEnter ==
    /\ Running("shoot_beam")
    /\ Top(stack).pc = "enter"
    /\ Becomes(shoot_beam_enter(Cfg))

ShootBeamLoop ==
    /\ Running("shoot_beam")
    /\ Top(stack).pc = "loop"
    /\ Becomes(shoot_beam_loop(Cfg))

GetAmountReturn ==
    /\ Running("get_amount_of_energized_tiles")
    /\ Becomes(get_amount_of_energized_tiles_return(Cfg))

GetMostStep ==
    /\ Running("get_most_amount_of_energized_tiles")
    /\ Becomes(get_most_amount_of_energized_tiles_step(Cfg))

SolvePartOneStep ==
    /\ Running("solve_part_one")
    /\ Becomes(solve_part_one_step(Cfg))

SolvePartTwoReturn ==
    /\ Running("solve_part_two")
    /\ Becomes(solve_part_two_return(Cfg))

Next ==
    \/ SolvePartOne
    \/ SolvePartTwo
    \/ GetAmountOfEnergizedTiles
    \/ GetMostAmountOfEnergizedTiles
    \/ ShootBeamEnter
    \/ ShootBeamLoop
    \/ GetAmountReturn
    \/ GetMostStep
    \/ SolvePartOneStep
    \/ SolvePartTwoReturn

Spec == Init /\ [][Next]_vars

InitExample ==
    /\ input = Example
    /\ map = parse(input)
    /\ stack = <<>>
    /\ ret = NoReturn
    /\ calls = <<>>
    /\ stack2 = <<>>
    /\ ret2 = NoReturn
    /\ ElsewhereIdle


SpecExample == InitExample /\ [][Next]_vars

----------------------------------------------------------------------------
(* Two callers of get_amount_of_energized_tiles on one ContraptionMap, their *)
(* steps interleaved: what the candidates of the maximizer run side by side *)
(* would do with the beams, energized and visited fields of d16.rs:10-15    *)
(* and 56-62, which belong to the map and not to a trace.                   *)

\* rectangular inputs of at most MaxInterleavedCells cells
InterleavedInputs ==
    UNION {[1..r -> [1..k -> Chars]] :
             <<r, k>> \in {rk \in (1..MaxInterleavedCells) \X (1..MaxInterleavedCells) :
                              rk[1] * rk[2] <= MaxInterleavedCells}}

Cfg2 == [map |-> map, stack |-> stack2, ret |-> ret2, calls |-> calls]

Becomes2(c) ==
    /\ map' = c.map
    /\ stack2' = c.stack
    /\ ret2' = c.ret
    /\ UNCHANGED <<input, stack, ret, calls, elsewhere>>

InitInterleaved ==
    /\ input \in InterleavedInputs
    /\ map = parse(input)
    /\ stack = <<>>
    /\ ret = NoReturn
    /\ calls = <<>>
    /\ stack2 = <<>>
    /\ ret2 = NoReturn
    /\ ElsewhereIdle

\* each caller makes one call, with an entry inside the grid
FirstCalls ==
    /\ stack = <<>>
    /\ ret = NoReturn
    /\ \E point \in Cells(map), beam \in Direction :
          Becomes(get_amount_of_energized_tiles_call(Cfg, point, beam))

FirstSteps ==
    /\ stack # <<>>
    /\ Becomes(Step(Cfg))

SecondCalls ==
    /\ stack2 = <<>>
    /\ ret2 = NoReturn
    /\ \E point \in Cells(map), beam \in Direction :
          Becomes2(get_amount_of_energized_tiles_call(Cfg2, point, beam))

SecondSteps ==
    /\ stack2 # <<>>
    /\ Becomes2(Step(Cfg2))

NextInterleaved == FirstCalls \/ FirstSteps \/ SecondCalls \/ SecondSteps

SpecInterleaved == InitInterleaved /\ [][NextInterleaved]_vars

----------------------------------------------------------------------------
(* Parsing (d16.rs:65-85) of inputs that need not be rectangular, and the   *)
(* two solutions run from an input that may hold no row at all.            *)

\* no ContraptionMap built yet
NoMap == [parsed |-> FALSE]

Lines == UNION {[1..n -> Chars] : n \in 0..MaxLineLength}

\* up to MaxLines lines of up to MaxLineLength chars each, empty lines included
LineInputs == UNION {[1..n -> Lines] : n \in 0..MaxLines}

InitParse ==
    /\ input \in LineInputs
    /\ map = NoMap
    /\ stack = <<>>
    /\ ret = NoReturn
    /\ calls = <<>>
    /\ stack2 = <<>>
    /\ ret2 = NoReturn
    /\ ElsewhereIdle

\* ContraptionMap::parse(input)
Parse ==
    /\ map = NoMap
    /\ map' = parse(input)
    /\ UNCHANGED <<input, stack, ret, calls, second, elsewhere>>

SpecParse == InitParse /\ [][Parse]_vars

\* inputs with no non-empty line
DegenerateInputs == {<<>>, << <<>> >>, << <<>>, <<>> >>}

InitDegenerate ==
    /\ input \in DegenerateInputs \cup InterleavedInputs
    /\ map = NoMap
    /\ stack = <<>>
    /\ ret = NoReturn
    /\ calls = <<>>
    /\ stack2 = <<>>
    /\ ret2 = NoReturn
    /\ ElsewhereIdle

\* solve_part_one and solve_part_two, each parsing the input itself
NextDegenerate ==
    \/ SolvePartOne
    \/ SolvePartTwo
    \/ ShootBeamEnter
    \/ ShootBeamLoop
    \/ GetAmountReturn
    \/ GetMostStep
    \/ SolvePartOneStep
    \/ SolvePartTwoReturn

SpecDegenerate == InitDegenerate /\ [][NextDegenerate]_vars

----------------------------------------------------------------------------
(* The trace of shoot_beam (d16.rs:119-141) with the order of exploration   *)
(* left open: the calls still to be made are kept as frames above the      *)
(* frame of get_amount_of_energized_tiles, any of them is taken next, and  *)
(* the outputs of redirect are added in either order.                      *)

Reverse(seq) == [k \in 1..Len(seq) |-> seq[Len(seq) + 1 - k]]

\* lines 120-136 for the pending call at index k of the stack
explore_any_order(c, k, reversed) ==
    LET f    == c.stack[k]
        rest == SubSeq(c.stack, 1, k - 1) \o SubSeq(c.stack, k + 1, Len(c.stack))
        e    == shoot_beam_enter([c EXCEPT !.stack = <<f>>])
    IN  IF e.stack = <<>>
        THEN [c EXCEPT !.map = e.map, !.stack = rest]
        ELSE LET r   == e.stack[1].redirected_beams
                 out == IF reversed THEN Reverse(r) ELSE r
             IN  [c EXCEPT
                    !.map = e.map,
                    !.stack = rest \o
                        [j \in 1..Len(out) |->
                            shoot_beam_frame(move_to(f.from, out[j]), out[j])]]

\* a 2x3 grid on which the two outputs of the splitter meet again
SplitAndMeet ==
    << <<"/", "-", "\\">>,
       <<"\\", ".", "/">> >>

InitAnyOrder ==
    /\ input \in Inputs \cup {SplitAndMeet}
    /\ map = parse(input)
    /\ stack = <<>>
    /\ ret = NoReturn
    /\ calls = <<>>
    /\ stack2 = <<>>
    /\ ret2 = NoReturn
    /\ ElsewhereIdle

ExploreAnyOrder ==
    /\ Len(stack) >= 2
    /\ \E k \in 2..Len(stack), reversed \in BOOLEAN :
          Becomes(explore_any_order(Cfg, k, reversed))

NextAnyOrder ==
    \/ GetAmountOfEnergizedTiles
    \/ ExploreAnyOrder
    \/ GetAmountReturn

SpecAnyOrder == InitAnyOrder /\ [][NextAnyOrder]_vars

----------------------------------------------------------------------------
(* y2023/d14.rs: the platform of rounded rocks, cube-shaped rocks and      *)
(* empty space.  An Option is the empty sequence (None) or a sequence of   *)
(* one element (Some).                                                     *)

None == <<>>

Some(v) == <<v>>

\* d14.rs:27-46
Point_move_to(point, direction) ==
    CASE direction = North -> [x |-> point.x, y |-> point.y - 1]
      [] direction = East  -> [x |-> point.x + 1, y |-> point.y]
      [] direction = South -> [x |-> point.x, y |-> point.y + 1]
      [] direction = West  -> [x |-> point.x - 1, y |-> point.y]

RoundedRock(point) == [kind |-> "RoundedRock", point |-> point]

CubeShapedRock(point) == [kind |-> "CubeShapedRock", point |-> point]

EmptySpace(point) == [kind |-> "EmptySpace", point |-> point]

PlatformChars == {"O", "#", "."}

Platform_Terrain_from_char(c) ==
    CASE c = "O" -> RoundedRock(None)
      [] c = "#" -> CubeShapedRock(None)
      [] c = "." -> EmptySpace(None)
      [] OTHER   -> Panic("Invalid Terrain char")

Platform_Terrain_to_char(t) ==
    CASE t.kind = "RoundedRock"    -> "O"
      [] t.kind = "CubeShapedRock" -> "#"
      [] t.kind = "EmptySpace"     -> "."

point_outside_grid(p, point) ==
    point.x < 0 \/ point.x >= p.columns \/ point.y < 0 \/ point.y >= p.rows

get(p, point) ==
    IF point_outside_grid(p, point)
    THEN None
    ELSE Some(p.grid[point.y + 1][point.x + 1])

\* the assert of line 195 fails for a point outside the grid
set(p, point, terrain) ==
    IF point_outside_grid(p, point)
    THEN Panic("Point not inside grid")
    ELSE [p EXCEPT !.grid[point.y + 1][point.x + 1] = terrain]

assign_points(p) ==
    [p EXCEPT !.grid =
        [r \in 1..p.rows |->
            [k \in 1..p.columns |->
                [p.grid[r][k] EXCEPT !.point = Some(Point_new(k - 1, r - 1))]]]]

Platform_from_strings(lines) ==
    LET kept == SelectSeq(lines, LAMBDA s : s # <<>>)
        grid == [r \in 1..Len(kept) |->
                    [k \in 1..Len(kept[r]) |-> Platform_Terrain_from_char(kept[r][k])]]
    IN  IF Len(grid) = 0
        THEN Panic("unwrap on None")
        ELSE assign_points([rows |-> Len(grid), columns |-> Len(grid[1]), grid |-> grid])

Platform_parse(lines) == Platform_from_strings(lines)

\* the lines grid_to_string joins
grid_to_string(grid) ==
    [r \in 1..Len(grid) |->
        [k \in 1..Len(grid[1]) |-> Platform_Terrain_to_char(grid[r][k])]]

can_move(p, point, direction) ==
    LET from == get(p, point)[1]
        to   == get(p, Point_move_to(point, direction))
    IN  from.kind = "RoundedRock" /\ to # None /\ to[1].kind = "EmptySpace"

Platform_move_to(p, from_point, direction) ==
    LET from == get(p, from_point)[1]
        to   == get(p, Point_move_to(from_point, direction))[1]
    IN  CASE from.kind = "RoundedRock" /\ to.kind = "EmptySpace" /\ to.point # None ->
                set(set(p, to.point[1], RoundedRock(Some(to.point[1]))),
                    from_point, EmptySpace(Some(from_point)))
          [] from.kind \in {"EmptySpace", "CubeShapedRock"} -> p
          [] OTHER -> Panic("Not able to move")

RECURSIVE tilt_terrain_at_point(_, _, _)
tilt_terrain_at_point(p, point, direction) ==
    IF can_move(p, point, direction)
    THEN tilt_terrain_at_point(Platform_move_to(p, point, direction),
                               Point_move_to(point, direction), direction)
    ELSE p

tilt_terrain(p, x, y, direction) ==
    tilt_terrain_at_point(p, Point_new(x, y), direction)

\* A plausible slip: every tilt scanning from the north-west corner, row by
\* row.
scan_order_from_north_west(p, direction, k) ==
    Point_new(k % p.columns, k \div p.columns)

\* lines 112-141: the k-th point (from 0) that tilt(direction) visits
scan_order(p, direction, k) ==
    CASE direction = North -> Point_new(k % p.columns, k \div p.columns)
      [] direction = South -> Point_new(k % p.columns, p.rows - 1 - (k \div p.columns))
      [] direction = East  -> Point_new(p.columns - 1 - (k \div p.rows), k % p.rows)
      [] direction = West  -> Point_new(k \div p.rows, k % p.rows)

\* the nested for loops of tilt, from their k-th iteration on
RECURSIVE tilt_from(_, _, _)
tilt_from(p, direction, k) ==
    IF k = p.rows * p.columns
    THEN p
    ELSE LET point == scan_order(p, direction, k)
         IN  tilt_from(tilt_terrain(p, point.x, point.y, direction), direction, k + 1)

tilt(p, direction) == assign_points(tilt_from(p, direction, 0))

\* A plausible slip: the cycle taken clockwise.
spin_order_clockwise == <<North, East, South, West>>

\* line 106
spin_order == <<North, West, South, East>>

\* spin is the caller's record: pc is 0 outside run_spin_cycle and otherwise
\* the index in spin_order of the next tilt; cycles counts the calls of
\* run_spin_cycle that have returned; start is the platform as parsed; before
\* and last are the platform before the last tilt and its direction.
run_spin_cycle_call(sp) == [sp EXCEPT !.pc = 1]

\* one iteration of the for_each of line 108, and the return after the last
run_spin_cycle_step(p, sp) ==
    [platform |-> tilt(p, spin_order[sp.pc]),
     spin     |-> [sp EXCEPT
                     !.before = p,
                     !.last = spin_order[sp.pc],
                     !.pc = IF sp.pc = Len(spin_order) THEN 0 ELSE sp.pc + 1,
                     !.cycles = IF sp.pc = Len(spin_order) THEN @ + 1 ELSE @]]

\* the example of define_examples (d14.rs:303-318)
PlatformExample ==
    << <<"O", ".", ".", ".", ".", "#", ".", ".", ".", ".">>,
       <<"O", ".", "O", "O", "#", ".", ".", ".", ".", "#">>,
       <<".", ".", ".", ".", ".", "#", "#", ".", ".", ".">>,
       <<"O", "O", ".", "#", "O", ".", ".", ".", ".", "O">>,
       <<".", "O", ".", ".", ".", ".", ".", "O", "#", ".">>,
       <<"O", ".", "#", ".", ".", "O", ".", "#", ".", "#">>,
       <<".", ".", "O", ".", ".", "#", "O", ".", ".", "O">>,
       <<".", ".", ".", ".", ".", ".", ".", "O", ".", ".">>,
       <<"#", ".", ".", ".", ".", "#", "#", "#", ".", ".">>,
       <<"#", "O", "O", ".", ".", "#", ".", ".", ".", ".">> >>

\* rectangular inputs of at most MaxPlatformRows x MaxPlatformColumns and
\* MaxPlatformCells cells
PlatformInputs ==
    UNION {[1..r -> [1..k -> PlatformChars]] :
             <<r, k>> \in {rk \in (1..MaxPlatformRows) \X (1..MaxPlatformColumns) :
                              rk[1] * rk[2] <= MaxPlatformCells}}

D16Idle ==
    /\ input = <<>>
    /\ map = NoMap
    /\ stack = <<>>
    /\ ret = NoReturn
    /\ calls = <<>>
    /\ stack2 = <<>>
    /\ ret2 = NoReturn

\* the programs other than y2023/d14.rs
OutsideD14 == <<d16vars, almanac, bricks, image>>

OutsideD14Idle == D16Idle /\ D05Idle /\ D22Idle /\ D11Idle

\* the platform parsed from lines, its caller outside run_spin_cycle
Parsed(lines) ==
    /\ platform = Platform_parse(lines)
    /\ spin = [pc |-> 0, cycles |-> 0, start |-> Platform_parse(lines),
               before |-> Platform_parse(lines), last |-> "none"]
    /\ OutsideD14Idle

InitPlatform == \E lines \in PlatformInputs : Parsed(lines)

InitSpin == \E lines \in PlatformInputs \cup {PlatformExample} : Parsed(lines)

\* platform.tilt(direction)
Tilt ==
    /\ spin.pc = 0
    /\ \E direction \in Direction :
          /\ platform' = tilt(platform, direction)
          /\ spin' = [spin EXCEPT !.before = platform, !.last = direction]
    /\ UNCHANGED OutsideD14

SpecTilt == InitPlatform /\ [][Tilt]_vars

\* platform.run_spin_cycle(), at most MaxCycles times
RunSpinCycle ==
    /\ spin.pc = 0
    /\ spin.cycles < MaxCycles
    /\ spin' = run_spin_cycle_call(spin)
    /\ UNCHANGED <<platform, OutsideD14>>

RunSpinCycleStep ==
    /\ spin.pc # 0
    /\ platform' = run_spin_cycle_step(platform, spin).platform
    /\ spin' = run_spin_cycle_step(platform, spin).spin
    /\ UNCHANGED OutsideD14

NextSpin == RunSpinCycle \/ RunSpinCycleStep

SpecSpin == InitSpin /\ [][NextSpin]_vars

\* d14.rs:203-209
load_at_row(p, row) ==
    IF row < 0 \/ row >= p.rows THEN None ELSE Some(p.rows - row)

\* d14.rs:211-225, the rows summed from the first to the nth
RECURSIVE total_load_of_rows(_, _)
total_load_of_rows(p, n) ==
    IF n = 0 THEN 0
    ELSE LET y == n - 1
             load == load_at_row(p, y)[1]
             rounded == {x \in 0..(p.columns - 1) :
                            get(p, Point_new(x, y))[1].kind = "RoundedRock"}
         IN  total_load_of_rows(p, n - 1) + load * Cardinality(rounded)

get_total_load(p) == total_load_of_rows(p, p.rows)

\* spin.loop is the frame of get_total_load_after_cycles: pc is "idle" outside
\* the call, then "for" at the head of the loop of line 244, "insert" while
\* and after run_spin_cycle runs, "load" at line 254 and "done" on return;
\* current_cycle is the last value the range gave, grid_at the HashMap.
NoLoop == [pc |-> "idle"]

\* lines 242-243
get_total_load_after_cycles_call(sp, number_of_cycles) ==
    [sp EXCEPT !.loop = [pc |-> "for",
                         number_of_cycles |-> number_of_cycles,
                         current_cycle |-> 0,
                         grid_at |-> <<>>,
                         result |-> None]]

\* lines 244-245: the range 1..number_of_cycles gives its next value and
\* run_spin_cycle is called, or the range is exhausted
get_total_load_after_cycles_for(sp) ==
    IF sp.loop.current_cycle + 1 < sp.loop.number_of_cycles
    THEN [run_spin_cycle_call(sp) EXCEPT
            !.loop.current_cycle = @ + 1,
            !.loop.pc = "insert"]
    ELSE [sp EXCEPT !.loop.pc = "load"]

\* lines 246-252: grid_at.insert and the test for a loop
get_total_load_after_cycles_insert(p, sp) ==
    LET current_cycle == sp.loop.current_cycle
        grid_at == sp.loop.grid_at
        previous_grid_at == IF p.grid \in DOMAIN grid_at
                            THEN Some(grid_at[p.grid])
                            ELSE None
        inserted == [g \in DOMAIN grid_at \cup {p.grid} |->
                        IF g = p.grid THEN current_cycle ELSE grid_at[g]]
        cycles_left == sp.loop.number_of_cycles - current_cycle
    IN  [sp EXCEPT
           !.loop.grid_at = inserted,
           !.loop.pc =
               IF previous_grid_at # None
               THEN LET number_of_cycles_in_loop ==
                            current_cycle - previous_grid_at[1]
                    IN  IF cycles_left % number_of_cycles_in_loop = 0
                        THEN "load"
                        ELSE "for"
               ELSE "for"]

\* line 254
get_total_load_after_cycles_return(p, sp) ==
    [sp EXCEPT !.loop.result = Some(get_total_load(p)), !.loop.pc = "done"]

\* the platform parsed from lines, before get_total_load_after_cycles
InitLoad ==
    \E lines \in PlatformInputs \cup {PlatformExample} :
        /\ platform = Platform_parse(lines)
        /\ spin = [pc |-> 0, cycles |-> 0, start |-> Platform_parse(lines),
                   before |-> Platform_parse(lines), last |-> "none",
                   loop |-> NoLoop]
        /\ OutsideD14Idle

\* platform.get_total_load_after_cycles(number_of_cycles)
GetTotalLoadAfterCycles ==
    /\ spin.loop.pc = "idle"
    /\ \E number_of_cycles \in 1..MaxNumberOfCycles :
          spin' = get_total_load_after_cycles_call(spin, number_of_cycles)
    /\ UNCHANGED <<platform, OutsideD14>>

GetTotalLoadAfterCyclesFor ==
    /\ spin.loop.pc = "for"
    /\ spin' = get_total_load_after_cycles_for(spin)
    /\ UNCHANGED <<platform, OutsideD14>>

GetTotalLoadAfterCyclesInsert ==
    /\ spin.loop.pc = "insert"
    /\ spin.pc = 0
    /\ spin' = get_total_load_after_cycles_insert(platform, spin)
    /\ UNCHANGED <<platform, OutsideD14>>

GetTotalLoadAfterCyclesReturn ==
    /\ spin.loop.pc = "load"
    /\ spin' = get_total_load_after_cycles_return(platform, spin)
    /\ UNCHANGED <<platform, OutsideD14>>

NextLoad ==
    \/ GetTotalLoadAfterCycles
    \/ GetTotalLoadAfterCyclesFor
    \/ RunSpinCycleStep
    \/ GetTotalLoadAfterCyclesInsert
    \/ GetTotalLoadAfterCyclesReturn

SpecLoad == InitLoad /\ [][NextLoad]_vars

----------------------------------------------------------------------------
(* y2023/d05.rs: intervals mapped through the maps of an almanac *)

\* Interval::new; the assert of lines 29-34 fails when a > b
Interval_new(a, b) ==
    IF a <= b THEN [a |-> a, b |-> b, v |-> FALSE] ELSE Panic("Invalid interval")

Interval_len(i) == i.b - i.a

\* split(at): the interval as split leaves it (self.b = at - 1) and the part
\* split off, in this order
split(i, at) ==
    IF at >= i.a /\ at <= i.b
    THEN <<[i EXCEPT !.b = at - 1], Interval_new(at, i.b)>>
    ELSE Panic("assertion failed")

shift(i, by) == [i EXCEPT !.a = @ + by, !.b = @ + by]

Transform_new(destination, source, length) ==
    [source      |-> Interval_new(source, source + length),
     destination |-> Interval_new(destination, destination + length)]

get_shift(t) ==
    IF Interval_len(t.source) = Interval_len(t.destination)
    THEN t.destination.a - t.source.a
    ELSE Panic("assertion failed")

\* Interval::apply (lines 55-94)
Interval_apply(self, t) ==
    IF self.a >= t.source.a /\ self.b <= t.source.b
    THEN <<[shift(self, get_shift(t)) EXCEPT !.v = TRUE]>>
    ELSE LET split_by_source_a == t.source.a > self.a /\ t.source.a <= self.b
             split_by_source_b == t.source.b < self.b /\ t.source.b >= self.a
             r1 == IF split_by_source_a THEN split(self, t.source.a) ELSE <<self>>
             r2 == IF split_by_source_b
                   THEN SubSeq(r1, 1, Len(r1) - 1) \o split(r1[Len(r1)], t.source.b)
                   ELSE r1
             r3 == IF split_by_source_a
                   THEN [r2 EXCEPT ![2] = shift(@, get_shift(t))]
                   ELSE IF split_by_source_b
                        THEN [r2 EXCEPT ![1] = shift(@, get_shift(t))]
                        ELSE r2
         IN  IF split_by_source_a \/ split_by_source_b
             THEN [k \in 1..Len(r3) |-> [r3[k] EXCEPT !.v = TRUE]]
             ELSE r3

\* Transform::apply (lines 115-129), from the k-th interval on
RECURSIVE Transform_apply_from(_, _, _, _)
Transform_apply_from(t, intervals, k, result) ==
    IF k > Len(intervals)
    THEN result
    ELSE Transform_apply_from(t, intervals, k + 1,
            IF ~intervals[k].v
            THEN result \o Interval_apply(intervals[k], t)
            ELSE Append(result, intervals[k]))

Transform_apply(t, intervals) == Transform_apply_from(t, intervals, 1, <<>>)

\* almanac is the record of a run of solve_part_two: seeds the intervals
\* parsed, a the Almanac, s the intervals of apply_almanac, i and j the map
\* and the transform its loops are at (from 1), answer the value returned.

\* lines 135-141: one iteration of the inner loop of apply_almanac
apply_almanac_transform(al) ==
    [al EXCEPT !.s = Transform_apply(al.a[al.i][al.j], al.s), !.j = @ + 1]

\* lines 143-146: the end of an iteration of the outer loop
apply_almanac_next_map(al) ==
    [al EXCEPT !.s = [k \in 1..Len(al.s) |-> [al.s[k] EXCEPT !.v = FALSE]],
               !.i = @ + 1,
               !.j = 1]

\* lines 263-264: s.sort_by_key(|i| i.a); s[0].a
first_after_sort(s) ==
    CHOOSE m \in {s[k].a : k \in 1..Len(s)} : \A k \in 1..Len(s) : m <= s[k].a

\* the lines "destination source length" of a map
TransformLines ==
    [destination : 0..MaxTransformValue,
     source      : 0..MaxTransformValue,
     length      : 1..MaxTransformLength]

\* no value is in the source range of two lines
Disjoint(lines) ==
    \A j, k \in 1..Len(lines) :
        j < k => \/ lines[j].source + lines[j].length <= lines[k].source
                 \/ lines[k].source + lines[k].length <= lines[j].source

\* the maps of 1 to MaxTransforms lines with disjoint source ranges
MapLines ==
    {lines \in UNION {[1..n -> TransformLines] : n \in 1..MaxTransforms} :
        Disjoint(lines)}

\* the Vec<Transform> parse builds from the lines of a map (line 181)
Transforms(lines) ==
    [k \in 1..Len(lines) |->
        Transform_new(lines[k].destination, lines[k].source, lines[k].length)]

\* almanacs of one map, or of two maps of one line each
Almanacs ==
    {<<Transforms(m)>> : m \in MapLines}
    \cup {<<Transforms(<<l1>>), Transforms(<<l2>>)>> : l1, l2 \in TransformLines}

\* one range of seeds, as parse builds it (line 161)
Seeds == {<<Interval_new(a, b)>> : a, b \in 0..MaxSeed} \ {<<Panic("Invalid interval")>>}

\* the programs other than y2023/d05.rs
OutsideD05 == <<d16vars, d14vars, bricks, image>>

InitAlmanac ==
    /\ \E seeds \in Seeds, a \in Almanacs :
          almanac = [seeds |-> seeds, a |-> a, s |-> seeds, i |-> 1, j |-> 1,
                     pc |-> "apply_almanac", answer |-> 0]
    /\ D16Idle /\ D14Idle /\ D22Idle /\ D11Idle

ApplyAlmanacTransform ==
    /\ almanac.pc = "apply_almanac"
    /\ almanac.i <= Len(almanac.a)
    /\ almanac.j <= Len(almanac.a[almanac.i])
    /\ almanac' = apply_almanac_transform(almanac)
    /\ UNCHANGED OutsideD05

ApplyAlmanacNextMap ==
    /\ almanac.pc = "apply_almanac"
    /\ almanac.i <= Len(almanac.a)
    /\ almanac.j > Len(almanac.a[almanac.i])
    /\ almanac' = apply_almanac_next_map(almanac)
    /\ UNCHANGED OutsideD05

\* apply_almanac returns, and solve_part_two sorts and takes the first start
SolveReturn ==
    /\ almanac.pc = "apply_almanac"
    /\ almanac.i > Len(almanac.a)
    /\ almanac' = [almanac EXCEPT !.pc = "done", !.answer = first_after_sort(almanac.s)]
    /\ UNCHANGED OutsideD05

NextAlmanac == ApplyAlmanacTransform \/ ApplyAlmanacNextMap \/ SolveReturn

SpecAlmanac == InitAlmanac /\ [][NextAlmanac]_vars

----------------------------------------------------------------------------
(* day22.rs: bricks falling until each has found support *)

Point3(x, y, z) == [x |-> x, y |-> y, z |-> z]

Point_translate(point, other) ==
    [x |-> point.x + other.x, y |-> point.y + other.y, z |-> point.z + other.z]

min(a, b) == IF a <= b THEN a ELSE b

get_min(brick, dimension) ==
    CASE dimension = "x" -> min(brick.head.x, brick.tail.x)
      [] dimension = "y" -> min(brick.head.y, brick.tail.y)
      [] dimension = "z" -> min(brick.head.z, brick.tail.z)

get_max(brick, dimension) ==
    CASE dimension = "x" -> max(brick.head.x, brick.tail.x)
      [] dimension = "y" -> max(brick.head.y, brick.tail.y)
      [] dimension = "z" -> max(brick.head.z, brick.tail.z)

LineSegment_new(x1, y1, x2, y2) == [x1 |-> x1, y1 |-> y1, x2 |-> x2, y2 |-> y2]

\* line_segment::intersects, for segments parallel to an axis: they share a
\* point exactly when their extents overlap in x and in y
line_segment_intersects(a, b) ==
    /\ min(a.x1, a.x2) <= max(b.x1, b.x2)
    /\ min(b.x1, b.x2) <= max(a.x1, a.x2)
    /\ min(a.y1, a.y2) <= max(b.y1, b.y2)
    /\ min(b.y1, b.y2) <= max(a.y1, a.y2)

intersects_in_xy_plane(self, other) ==
    line_segment_intersects(
        LineSegment_new(self.head.x, self.head.y, self.tail.x, self.tail.y),
        LineSegment_new(other.head.x, other.head.y, other.tail.x, other.tail.y))

is_falling(brick) == get_min(brick, "z") > 1 /\ brick.support = <<>>

Brick_translate(brick, point) ==
    [brick EXCEPT !.head = Point_translate(@, point),
                  !.tail = Point_translate(@, point)]

fall_distance(brick, distance) == Brick_translate(brick, Point3(0, 0, -distance))

\* the greatest of the highest z of the bricks of a non-empty sequence
other_max_z_of(lower_bricks) ==
    CHOOSE z \in {get_max(lower_bricks[k], "z") : k \in 1..Len(lower_bricks)} :
        \A k \in 1..Len(lower_bricks) : get_max(lower_bricks[k], "z") <= z

\* A plausible slip: the brick dropped to the level of its supporters' tops.
fall_without_gap(self, queue) ==
    LET self_min_z == get_min(self, "z")
        lower_bricks ==
            SelectSeq(SelectSeq(queue, LAMBDA b : get_max(b, "z") < self_min_z),
                      LAMBDA b : intersects_in_xy_plane(self, b))
    IN  IF lower_bricks = <<>>
        THEN fall_distance(self, self_min_z - 1)
        ELSE LET other_max_z == other_max_z_of(lower_bricks)
                 highest == SelectSeq(lower_bricks,
                                      LAMBDA b : get_max(b, "z") = other_max_z)
             IN  fall_distance(
                    [self EXCEPT !.support = [k \in 1..Len(highest) |-> highest[k].id]],
                    self_min_z - other_max_z)

\* Brick::fall (lines 144-162); queue holds the bricks of the queue of
\* supported bricks, front first
fall(self, queue) ==
    LET self_min_z == get_min(self, "z")
        lower_bricks ==
            SelectSeq(SelectSeq(queue, LAMBDA b : get_max(b, "z") < self_min_z),
                      LAMBDA b : intersects_in_xy_plane(self, b))
    IN  IF lower_bricks = <<>>
        THEN fall_distance(self, self_min_z - 1)
        ELSE LET other_max_z == other_max_z_of(lower_bricks)
                 highest == SelectSeq(lower_bricks,
                                      LAMBDA b : get_max(b, "z") = other_max_z)
             IN  fall_distance(
                    [self EXCEPT !.support = [k \in 1..Len(highest) |-> highest[k].id]],
                    self_min_z - other_max_z - 1)

\* st is the record of a run of let_fall: bricks the map from BrickID to
\* Brick, start the map as parsed, falling_bricks and supported_bricks the two
\* queues as sequences of the ids of the bricks they refer to, front first.

\* lines 171-176: one iteration of the while loop
let_fall_step(st) ==
    LET id    == Head(st.falling_bricks)
        brick == st.bricks[id]
        queue == [k \in 1..Len(st.supported_bricks) |-> st.bricks[st.supported_bricks[k]]]
    IN  [st EXCEPT
            !.bricks[id] = IF is_falling(brick) THEN fall(brick, queue) ELSE brick,
            !.falling_bricks = Tail(@),
            !.supported_bricks = <<id>> \o @]

\* the lines "x,y,z~x,y,z" of the input: a brick extends from its head along
\* at most one axis, by at most MaxBrickExtent
BrickLines ==
    {[head |-> Point3(x, y, z), tail |-> Point3(x + e[1], y + e[2], z + e[3])] :
        <<x, y, z, e>> \in
            {t \in (0..MaxBrickXY) \X (0..MaxBrickXY) \X (1..MaxBrickZ)
                   \X ((0..MaxBrickExtent) \X (0..MaxBrickExtent) \X (0..MaxBrickExtent)) :
                /\ Cardinality({k \in 1..3 : t[4][k] # 0}) <= 1
                /\ t[1] + t[4][1] <= MaxBrickXY
                /\ t[2] + t[4][2] <= MaxBrickXY
                /\ t[3] + t[4][3] <= MaxBrickZ}}

\* the cubes a brick occupies
Cubes(brick) ==
    {Point3(x, y, z) : x \in get_min(brick, "x")..get_max(brick, "x"),
                       y \in get_min(brick, "y")..get_max(brick, "y"),
                       z \in get_min(brick, "z")..get_max(brick, "z")}

\* a number per line, to list the lines of an input in one order only
LineCode(line) ==
    ((((line.head.x * 10 + line.head.y) * 10 + line.head.z) * 10
        + (line.tail.x - line.head.x)) * 10
        + (line.tail.y - line.head.y)) * 10 + (line.tail.z - line.head.z)

\* inputs of 1 to MaxBricks bricks, no two of them sharing a cube
BrickInputs ==
    {lines \in UNION {[1..n -> BrickLines] : n \in 1..MaxBricks} :
        \A j, k \in 1..Len(lines) :
            j < k => /\ LineCode(lines[j]) < LineCode(lines[k])
                     /\ Cubes(lines[j]) \cap Cubes(lines[k]) = {}}

\* parse_bricks (lines 56-67): the brick of line i has id i, from 0
parse_bricks(lines) ==
    [id \in 0..(Len(lines) - 1) |->
        [id |-> id, head |-> lines[id + 1].head, tail |-> lines[id + 1].tail,
         support |-> <<>>]]

\* lines 167-169: the values of the HashMap, in whatever order it yields
\* them, sorted by lowest z
SortedByMinZ(bs) ==
    {order \in [1..Cardinality(DOMAIN bs) -> DOMAIN bs] :
        /\ \A j, k \in DOMAIN order : j < k => order[j] # order[k]
        /\ \A j, k \in DOMAIN order :
              j < k => get_min(bs[order[j]], "z") <= get_min(bs[order[k]], "z")}

\* the programs other than day22.rs
OutsideD22 == <<d16vars, d14vars, almanac, image>>

InitBricks ==
    /\ \E lines \in BrickInputs : \E order \in SortedByMinZ(parse_bricks(lines)) :
          bricks = [bricks |-> parse_bricks(lines), start |-> parse_bricks(lines),
                    falling_bricks |-> order, supported_bricks |-> <<>>,
                    pc |-> "let_fall"]
    /\ D16Idle /\ D14Idle /\ D05Idle /\ D11Idle

LetFallStep ==
    /\ bricks.pc = "let_fall"
    /\ bricks.falling_bricks # <<>>
    /\ bricks' = let_fall_step(bricks)
    /\ UNCHANGED OutsideD22

LetFallReturn ==
    /\ bricks.pc = "let_fall"
    /\ bricks.falling_bricks = <<>>
    /\ bricks' = [bricks EXCEPT !.pc = "done"]
    /\ UNCHANGED OutsideD22

NextBricks == LetFallStep \/ LetFallReturn

SpecBricks == InitBricks /\ [][NextBricks]_vars

----------------------------------------------------------------------------
(* day11.rs: the image of galaxies and its expansion *)

Data_EmptySpace == [kind |-> "EmptySpace"]

Data_Galaxy(position) == [kind |-> "Galaxy", position |-> position]

ImageChars == {".", "#"}

Data_from_char(c) ==
    CASE c = "." -> Data_EmptySpace
      [] c = "#" -> Data_Galaxy(None)
      [] OTHER   -> Panic("Not valid Data")

\* lines 48-56: one row per i in 0..len - 1, the range's end excluded
transpose_grid(grid) ==
    [i \in 1..(Len(grid[1]) - 1) |-> [r \in 1..Len(grid) |-> grid[r][i]]]

find_galaxies(grid) ==
    LET row(r) == SelectSeq(grid[r], LAMBDA d : d.kind = "Galaxy")
        RECURSIVE upto(_)
        upto(r) == IF r = 0 THEN <<>> ELSE upto(r - 1) \o row(r)
    IN  upto(Len(grid))

\* the indices (from 0) of the rows that hold no galaxy
find_empty_rows(grid) ==
    SelectSeq([i \in 1..Len(grid) |-> i - 1],
              LAMBDA i : \A k \in 1..Len(grid[i + 1]) : grid[i + 1][k] = Data_EmptySpace)

shift_values_by_index(sequence) ==
    [k \in 1..Len(sequence) |-> sequence[k] + (k - 1)]

\* lines 142-150, on the grid of an image of the given rows and columns
assign_positions_to_galaxies(data, rows, columns) ==
    [r \in 1..Len(data) |->
        [k \in 1..Len(data[r]) |->
            IF data[r][k].kind = "Galaxy" /\ k <= columns /\ r <= rows
            THEN Data_Galaxy(Some([x |-> k - 1, y |-> r - 1]))
            ELSE data[r][k]]]

Image_from_strings(lines) ==
    LET kept == SelectSeq(lines, LAMBDA s : s # <<>>)
        data == [r \in 1..Len(kept) |->
                    [k \in 1..Len(kept[r]) |-> Data_from_char(kept[r][k])]]
        rows == Len(lines)
        columns == Len(lines[1])
        positioned == assign_positions_to_galaxies(data, rows, columns)
    IN  [to_strings |-> lines,
         data |-> positioned,
         rows |-> rows,
         columns |-> columns,
         galaxies |-> find_galaxies(positioned),
         number_of_galaxies |-> Len(find_galaxies(positioned))]

\* Vec::insert and String::insert at an index from 0
insert(seq, index, element) ==
    SubSeq(seq, 1, index) \o <<element>> \o SubSeq(seq, index + 1, Len(seq))

\* lines 127-132, from the k-th empty row on
RECURSIVE insert_rows(_, _, _, _)
insert_rows(lines, empty_rows, k, columns) ==
    IF k > Len(empty_rows)
    THEN lines
    ELSE insert_rows(insert(lines, empty_rows[k], [c \in 1..columns |-> "."]),
                     empty_rows, k + 1, columns)

\* lines 133-137, from the k-th empty column on
RECURSIVE insert_columns(_, _, _)
insert_columns(lines, empty_columns, k) ==
    IF k > Len(empty_columns)
    THEN lines
    ELSE insert_columns([r \in 1..Len(lines) |-> insert(lines[r], empty_columns[k], ".")],
                        empty_columns, k + 1)

expand_universe(self) ==
    LET data_transposed == transpose_grid(self.data)
        empty_rows == shift_values_by_index(find_empty_rows(self.data))
        empty_columns == shift_values_by_index(find_empty_rows(data_transposed))
    IN  Image_from_strings(
            insert_columns(insert_rows(self.to_strings, empty_rows, 1, self.columns),
                           empty_columns, 1))

\* rectangular inputs of at most MaxImageRows x MaxImageColumns
ImageInputs ==
    UNION {[1..r -> [1..k -> ImageChars]] :
             <<r, k>> \in (1..MaxImageRows) \X (1..MaxImageColumns)}

\* the programs other than day11.rs
OutsideD11 == <<d16vars, d14vars, almanac, bricks>>

\* image holds the Image built from the input and, once expand_universe has
\* returned, the Image it returned
InitImage ==
    /\ \E lines \in ImageInputs :
          image = [image |-> Image_from_strings(lines), expanded |-> NotLoaded]
    /\ D16Idle /\ D14Idle /\ D05Idle /\ D22Idle

ExpandUniverse ==
    /\ image.expanded = NotLoaded
    /\ image' = [image EXCEPT !.expanded = expand_universe(image.image)]
    /\ UNCHANGED OutsideD11

SpecImage == InitImage /\ [][ExpandUniverse]_vars

----------------------------------------------------------------------------
(* Reference definitions used by the properties *)

Range(seq) == {seq[k] : k \in 1..Len(seq)}

BeamState(point, beam) == [point |-> point, beam |-> beam]

\* the edges of the beam-state graph
Successors(m, s) ==
    IF within_grid(m, s.point)
    THEN {BeamState(move_to(s.point, o), o) :
            o \in Range(redirect(get_terrain(m, s.point).the_type, s.beam))}
    ELSE {}

RECURSIVE ReachableFrom(_, _)
ReachableFrom(m, S) ==
    LET T == S \cup UNION {Successors(m, s) : s \in S}
    IN  IF T = S THEN S ELSE ReachableFrom(m, T)

EnergizedPositions(m, point, beam) ==
    {s.point : s \in {t \in ReachableFrom(m, {BeamState(point, beam)}) :
                         within_grid(m, t.point)}}

\* what get_amount_of_energized_tiles returns on the map as parsed
FreshAmount(point, beam) ==
    Run(get_amount_of_energized_tiles_call(
            [map |-> parse(input), stack |-> <<>>, ret |-> NoReturn, calls |-> <<>>],
            point, beam)).ret.value

\* the border entries, each pointing inward
BorderEntries(m) ==
    {BeamState(Point_new(x, 0), South) : x \in 0..(m.columns - 1)}
    \cup {BeamState(Point_new(x, m.rows - 1), North) : x \in 0..(m.columns - 1)}
    \cup {BeamState(Point_new(0, y), East) : y \in 0..(m.rows - 1)}
    \cup {BeamState(Point_new(m.columns - 1, y), West) : y \in 0..(m.rows - 1)}

Maximum(S) == CHOOSE v \in S : \A w \in S : w <= v

Returned(fn) == ret.fn = fn

\* the redirection table of the specification, as sets of outgoing directions
RedirectionTable(e, d) ==
    CASE e = "EmptySpace" -> {d}
      [] e = "NorthEastMirror" ->
            (CASE d = North -> {East} [] d = East -> {North}
               [] d = South -> {West} [] d = West -> {South})
      [] e = "NorthWestMirror" ->
            (CASE d = North -> {West} [] d = East -> {South}
               [] d = South -> {East} [] d = West -> {North})
      [] e = "NorthSouthSplitter" ->
            (IF d \in {East, West} THEN {North, South} ELSE {d})
      [] e = "EastWestSplitter" ->
            (IF d \in {North, South} THEN {East, West} ELSE {d})

\* the frames of shoot_beam calls that have reached their for loop
LoopFrames == {k \in 1..Len(stack) : stack[k].fn = "shoot_beam" /\ stack[k].pc = "loop"}

----------------------------------------------------------------------------
(* Properties *)

\* C1: get_amount_of_energized_tiles(p, d), with p in bounds, returns the
\* number of distinct in-bounds positions of the beam states reachable from
\* (p, d) in the graph whose edges follow redirect and one move.
C1_CountIsReachablePositions ==
    (Returned("get_amount_of_energized_tiles") /\ within_grid(map, ret.point))
        => ret.value = Cardinality(EnergizedPositions(map, ret.point, ret.beam))

\* a trace that branched and turned has returned its count
C1_Witness ==
    /\ Returned("get_amount_of_energized_tiles")
    /\ within_grid(map, ret.point)
    /\ ret.value = 4
    /\ \E p \in Cells(map) : Len(get_terrain(map, p).beams) >= 2

\* C2: redirect gives, for each of the 5 elements and 4 incoming directions,
\* exactly the outgoing directions of the redirection table, one or two of
\* them and no others.
C2_RedirectFollowsTable ==
    \A k \in LoopFrames :
        LET f == stack[k]
            out == f.redirected_beams
        IN  /\ Len(out) \in {1, 2}
            /\ Len(out) = Cardinality(Range(out))
            /\ Range(out) = RedirectionTable(get_terrain(map, f.from).the_type, f.beam)

\* a '/' mirror has turned a northbound beam East and a '|' splitter has split
\* an eastbound one
C2_Witness ==
    /\ \E k \in LoopFrames :
          /\ get_terrain(map, stack[k].from).the_type = "NorthEastMirror"
          /\ stack[k].beam = North
          /\ stack[k].redirected_beams = <<East>>
    /\ \E k \in LoopFrames :
          /\ get_terrain(map, stack[k].from).the_type = "NorthSouthSplitter"
          /\ stack[k].beam = East
          /\ Range(stack[k].redirected_beams) = {North, South}

\* every beam recorded in a cell is recorded there once
NoStateProcessedTwice ==
    \A r \in 1..Len(map.grid) : \A k \in 1..Len(map.grid[r]) :
        LET beams == map.grid[r][k].beams
        IN  Len(beams) = Cardinality(Range(beams))

\* the number of beam states processed since the last reset: the beams
\* recorded in the first k cells of row r, and in the first r rows
RECURSIVE BeamsInRow(_, _)
BeamsInRow(r, k) ==
    IF k = 0 THEN 0 ELSE Len(map.grid[r][k].beams) + BeamsInRow(r, k - 1)

RECURSIVE BeamsInRows(_)
BeamsInRows(r) ==
    IF r = 0 THEN 0 ELSE BeamsInRow(r, Len(map.grid[r])) + BeamsInRows(r - 1)

Processed == BeamsInRows(Len(map.grid))

\* the shoot_beam calls among the first n frames of the stack, and the
\* iterations their loops still owe
RECURSIVE ShootBeamCalls(_)
ShootBeamCalls(n) ==
    IF n = 0 THEN 0
    ELSE (IF stack[n].fn = "shoot_beam" THEN 1 ELSE 0) + ShootBeamCalls(n - 1)

RECURSIVE PendingIn(_)
PendingIn(n) ==
    IF n = 0 THEN 0
    ELSE (IF stack[n].fn = "shoot_beam"
          THEN Len(stack[n].redirected_beams) - stack[n].i ELSE 0)
         + PendingIn(n - 1)

\* what is left of a trace: the beam states not yet processed, the loop
\* iterations owed and the calls to return from
TraceMeasure ==
    5 * (4 * map.rows * map.columns - Processed)
        + 2 * PendingIn(Len(stack)) + ShootBeamCalls(Len(stack))

\* C3: a trace terminates, and during it no beam state (position, direction)
\* is processed twice, so that at most 4 * rows * columns states are processed.
\* Termination: every step of shoot_beam lowers TraceMeasure, which is never
\* negative.
C3_TraceTerminates ==
    /\ [](NoStateProcessedTwice /\ Processed <= 4 * map.rows * map.columns)
    /\ [][Running("shoot_beam") => TraceMeasure' < TraceMeasure]_vars

\* shoot_beam is entered with a beam state the trace has processed already
C3_Witness ==
    /\ Running("shoot_beam")
    /\ Top(stack).pc = "enter"
    /\ within_grid(map, Top(stack).from)
    /\ Contains(get_terrain(map, Top(stack).from).beams, Top(stack).beam)

\* C4 (as claimed): the maximizer evaluates exactly the 2 * (rows + columns)
\* border entries, each once: the top row heading South, the bottom row
\* heading North, the left column heading East, the right column heading West.
C4_EvaluatesBorderEntries ==
    Returned("get_most_amount_of_energized_tiles") =>
        /\ Range(calls) = BorderEntries(map)
        /\ Len(calls) = 2 * (map.rows + map.columns)

\* C5 (as claimed): the maximizer returns the maximum of
\* get_amount_of_energized_tiles over all the border entries.
C5_ReturnsMaximumOverBorder ==
    Returned("get_most_amount_of_energized_tiles") =>
        ret.value = Maximum({FreshAmount(e.point, e.beam) : e \in BorderEntries(map)})

\* C6: the count get_amount_of_energized_tiles(p, d) returns after any earlier
\* traces on the map (earlier calls, candidates of the maximizer, the bare
\* shoot_beam of solve_part_one) is the count it returns on the map as parsed.
C6_CountIndependentOfHistory ==
    Returned("get_amount_of_energized_tiles") =>
        ret.value = FreshAmount(ret.point, ret.beam)

\* a candidate of the maximizer has been counted after another candidate that
\* energized cells it does not reach
C6_Witness ==
    /\ Running("get_most_amount_of_energized_tiles")
    /\ Returned("get_amount_of_energized_tiles")
    /\ Len(calls) >= 2
    /\ FreshAmount(calls[1].point, calls[1].beam) > ret.value
    /\ ret.value >= 2

\* C7: on the example grid solve_part_one returns 46.
C7_ExamplePartOne ==
    Returned("solve_part_one") => ret.value = 46

\* solve_part_one has returned on the example grid
C7_Witness ==
    /\ input = Example
    /\ Returned("solve_part_one")
    /\ Cardinality(map.visited) = 46

\* C8: on the example grid the search over the border entries returns 51.
C8_ExamplePartTwo ==
    (Returned("get_most_amount_of_energized_tiles") \/ Returned("solve_part_two"))
        => ret.value = 51

\* solve_part_two has returned on the example grid after its 40 candidates
C8_Witness ==
    /\ input = Example
    /\ Returned("solve_part_two")
    /\ Len(calls) = 40

\* C9: on the 1x1 grid of one EmptySpace the trace entered at (0,0) heading
\* East returns 1.
C9_SingleCell ==
    (/\ input = << <<".">> >>
     /\ Returned("get_amount_of_energized_tiles")
     /\ ret.point = Point_new(0, 0)
     /\ ret.beam = East)
        => ret.value = 1

\* that trace has returned, its one beam having left the grid
C9_Witness ==
    /\ input = << <<".">> >>
    /\ Returned("get_amount_of_energized_tiles")
    /\ ret.point = Point_new(0, 0)
    /\ ret.beam = East
    /\ map.visited = {Point_new(0, 0)}
    /\ map.grid[1][1].beams = <<East>>

\* C10: no step of a trace changes the element type of a cell, nor the rows
\* and columns of the map.
C10_GridUnchanged ==
    [][/\ get_terrain_map(map') = get_terrain_map(map)
       /\ map'.rows = map.rows
       /\ map'.columns = map.columns]_vars

\* the maximizer has returned on a grid with a mirror, cells energized
C10_Witness ==
    /\ Returned("get_most_amount_of_energized_tiles")
    /\ \E p \in Cells(map) : get_terrain(map, p).the_type = "NorthWestMirror"
    /\ \E p \in Cells(map) : get_terrain(map, p).energized
    /\ get_terrain_map(map) = input

Ragged(lines) ==
    \E j, k \in 1..Len(lines) :
        lines[j] # <<>> /\ lines[k] # <<>> /\ Len(lines[j]) # Len(lines[k])

\* C12 (as claimed): building the grid from lines of which two non-empty ones
\* differ in length fails with an error; no ContraptionMap is produced.
C12_RaggedInputRejected ==
    (map # NoMap /\ Ragged(input)) => IsPanic(map)

ProcessedStatesOf(m) ==
    {s \in {BeamState(p, d) : p \in Cells(m), d \in Direction} :
        Contains(get_terrain(m, s.point).beams, s.beam)}

ProcessedStates == ProcessedStatesOf(map)

\* the splitters '|' a beam heading East was processed at
SplittersEnteredEast ==
    {p \in Cells(map) :
        /\ get_terrain(map, p).the_type = "NorthSouthSplitter"
        /\ BeamState(p, East) \in ProcessedStates}

\* C19 (as claimed): once a trace has processed a beam heading East into a
\* '|' at P, the processed states contain both (P, North) and (P, South).
C19_SplitterStatesAtP ==
    Returned("get_amount_of_energized_tiles")
        => \A p \in SplittersEnteredEast :
              /\ BeamState(p, North) \in ProcessedStates
              /\ BeamState(p, South) \in ProcessedStates

\* C19 (amended): once a trace has processed a beam heading East into a '|'
\* at P, the processed states contain (P, East) and, for each of the two
\* outputs North and South, the state one move from P in that direction,
\* heading that direction, when that point is inside the grid.
C19_SplitterStatesAtNeighbours ==
    Returned("get_amount_of_energized_tiles")
        => \A p \in SplittersEnteredEast : \A d \in {North, South} :
              within_grid(map, move_to(p, d))
                  => BeamState(move_to(p, d), d) \in ProcessedStates

\* a trace that split at a '|' inside the grid has returned, both outputs
\* processed in the neighbouring cells and neither of them at P itself
C19_Witness ==
    /\ Returned("get_amount_of_energized_tiles")
    /\ \E p \in SplittersEnteredEast :
          /\ within_grid(map, move_to(p, North))
          /\ within_grid(map, move_to(p, South))
          /\ BeamState(move_to(p, North), North) \in ProcessedStates
          /\ BeamState(move_to(p, South), South) \in ProcessedStates
          /\ BeamState(p, North) \notin ProcessedStates
          /\ BeamState(p, South) \notin ProcessedStates

\* the map get_amount_of_energized_tiles leaves, run as the code runs it
\* (depth first, the outputs of redirect in their order) on the map as parsed
FreshTrace(point, beam) ==
    Run(get_amount_of_energized_tiles_call(
            [map |-> parse(input), stack |-> <<>>, ret |-> NoReturn, calls |-> <<>>],
            point, beam)).map

\* C20: whatever the order in which the pending beam states are taken and in
\* which the outputs of a splitter are added, the trace ends with the visited
\* positions and the processed beam states of the depth-first trace.
C20_OrderIndependent ==
    (Returned("get_amount_of_energized_tiles") /\ stack = <<>>)
        => /\ map.visited = FreshTrace(ret.point, ret.beam).visited
           /\ ProcessedStates = ProcessedStatesOf(FreshTrace(ret.point, ret.beam))
           /\ ret.value = FreshAmount(ret.point, ret.beam)

\* a trace has returned that recorded the beams of some cell in another order
\* than the depth-first trace does
C20_Witness ==
    /\ Returned("get_amount_of_energized_tiles")
    /\ stack = <<>>
    /\ \E p \in Cells(map) :
          /\ Len(get_terrain(map, p).beams) >= 2
          /\ get_terrain(map, p).beams
                # get_terrain(FreshTrace(ret.point, ret.beam), p).beams

----------------------------------------------------------------------------
(* y2023/d14.rs: properties of tilt and run_spin_cycle *)

PlatformCells(p) ==
    {Point_new(x, y) : x \in 0..(p.columns - 1), y \in 0..(p.rows - 1)}

KindAt(p, point) == p.grid[point.y + 1][point.x + 1].kind

Opposite(direction) ==
    CASE direction = North -> South
      [] direction = South -> North
      [] direction = East  -> West
      [] direction = West  -> East

\* the cells past point in the direction, up to a cube-shaped rock or the border
RECURSIVE Beyond(_, _, _)
Beyond(p, point, direction) ==
    LET q == Point_move_to(point, direction)
    IN  IF point_outside_grid(p, q) \/ KindAt(p, q) = "CubeShapedRock"
        THEN {}
        ELSE {q} \cup Beyond(p, q, direction)

\* the segment of the line through point along the direction, between
\* cube-shaped rocks or borders
Segment(p, point, direction) ==
    {point} \cup Beyond(p, point, direction) \cup Beyond(p, point, Opposite(direction))

RoundedIn(p, S) == Cardinality({q \in S : KindAt(p, q) = "RoundedRock"})

\* C14: after tilt(d) no rounded rock can move in direction d, the cube-shaped
\* rocks are where they were, and every segment of a line along d between
\* cube-shaped rocks or borders holds as many rounded rocks as before.
C14_TiltSettles ==
    spin.last # "none" =>
        /\ \A point \in PlatformCells(platform) : ~can_move(platform, point, spin.last)
        /\ \A point \in PlatformCells(platform) :
              KindAt(spin.before, point) = "CubeShapedRock"
                  <=> KindAt(platform, point) = "CubeShapedRock"
        /\ \A point \in PlatformCells(platform) :
              KindAt(spin.before, point) # "CubeShapedRock" =>
                  RoundedIn(platform, Segment(spin.before, point, spin.last))
                      = RoundedIn(spin.before, Segment(spin.before, point, spin.last))

\* a tilt moved a rounded rock up against a cube-shaped rock
C14_Witness ==
    /\ spin.last # "none"
    /\ \E point \in PlatformCells(platform) :
          /\ KindAt(platform, point) = "RoundedRock"
          /\ KindAt(spin.before, point) = "EmptySpace"
          /\ get(platform, Point_move_to(point, spin.last)) # None
          /\ get(platform, Point_move_to(point, spin.last))[1].kind = "CubeShapedRock"

\* the platform settled in the direction: in every segment the rounded rocks
\* fill the cells nearest to the end the direction points to
Settled(p, direction) ==
    [p EXCEPT !.grid =
        [r \in 1..p.rows |->
            [k \in 1..p.columns |->
                LET point == Point_new(k - 1, r - 1)
                IN  IF KindAt(p, point) = "CubeShapedRock"
                    THEN CubeShapedRock(Some(point))
                    ELSE IF Cardinality(Beyond(p, point, direction))
                              < RoundedIn(p, Segment(p, point, direction))
                         THEN RoundedRock(Some(point))
                         ELSE EmptySpace(Some(point))]]]

\* the first n tilts of a cycle North, West, South, East
RECURSIVE SettledThrough(_, _)
SettledThrough(p, n) ==
    IF n = 0 THEN p
    ELSE Settled(SettledThrough(p, n - 1), <<North, West, South, East>>[n])

RECURSIVE AfterCycles(_, _)
AfterCycles(p, n) ==
    IF n = 0 THEN p ELSE SettledThrough(AfterCycles(p, n - 1), 4)

\* the platforms test_tilt_part_two expects after 1, 2 and 3 cycles of the
\* example (d14.rs:385-427)
example_platform_cycles == <<
    << <<".", ".", ".", ".", ".", "#", ".", ".", ".", ".">>,
       <<".", ".", ".", ".", "#", ".", ".", ".", "O", "#">>,
       <<".", ".", ".", "O", "O", "#", "#", ".", ".", ".">>,
       <<".", "O", "O", "#", ".", ".", ".", ".", ".", ".">>,
       <<".", ".", ".", ".", ".", "O", "O", "O", "#", ".">>,
       <<".", "O", "#", ".", ".", ".", "O", "#", ".", "#">>,
       <<".", ".", ".", ".", "O", "#", ".", ".", ".", ".">>,
       <<".", ".", ".", ".", ".", ".", "O", "O", "O", "O">>,
       <<"#", ".", ".", ".", "O", "#", "#", "#", ".", ".">>,
       <<"#", ".", ".", "O", "O", "#", ".", ".", ".", ".">> >>,
    << <<".", ".", ".", ".", ".", "#", ".", ".", ".", ".">>,
       <<".", ".", ".", ".", "#", ".", ".", ".", "O", "#">>,
       <<".", ".", ".", ".", ".", "#", "#", ".", ".", ".">>,
       <<".", ".", "O", "#", ".", ".", ".", ".", ".", ".">>,
       <<".", ".", ".", ".", ".", "O", "O", "O", "#", ".">>,
       <<".", "O", "#", ".", ".", ".", "O", "#", ".", "#">>,
       <<".", ".", ".", ".", "O", "#", ".", ".", ".", "O">>,
       <<".", ".", ".", ".", ".", ".", ".", "O", "O", "O">>,
       <<"#", ".", ".", "O", "O", "#", "#", "#", ".", ".">>,
       <<"#", ".", "O", "O", "O", "#", ".", ".", ".", "O">> >>,
    << <<".", ".", ".", ".", ".", "#", ".", ".", ".", ".">>,
       <<".", ".", ".", ".", "#", ".", ".", ".", "O", "#">>,
       <<".", ".", ".", ".", ".", "#", "#", ".", ".", ".">>,
       <<".", ".", "O", "#", ".", ".", ".", ".", ".", ".">>,
       <<".", ".", ".", ".", ".", "O", "O", "O", "#", ".">>,
       <<".", "O", "#", ".", ".", ".", "O", "#", ".", "#">>,
       <<".", ".", ".", ".", "O", "#", ".", ".", ".", "O">>,
       <<".", ".", ".", ".", ".", ".", ".", "O", "O", "O">>,
       <<"#", ".", ".", ".", "O", "#", "#", "#", ".", "O">>,
       <<"#", ".", "O", "O", "O", "#", ".", ".", ".", "O">> >> >>

\* the tilts made so far by the call of run_spin_cycle under way
TiltsDone == IF spin.pc = 0 THEN 0 ELSE spin.pc - 1

\* C15: run_spin_cycle tilts North, West, South, East in this order, each
\* tilt settling the platform before the next; after n calls the platform is
\* the platform after n cycles (on the example, the ones the tests list).
C15_SpinCycleOrder ==
    /\ platform = SettledThrough(AfterCycles(spin.start, spin.cycles), TiltsDone)
    /\ TiltsDone > 0 => spin.last = <<North, West, South, East>>[TiltsDone]
    /\ (spin.pc = 0 /\ spin.cycles > 0) => spin.last = East
    /\ (/\ spin.start = Platform_parse(PlatformExample)
        /\ spin.pc = 0
        /\ spin.cycles \in 1..3)
          => grid_to_string(platform.grid) = example_platform_cycles[spin.cycles]

\* three calls of run_spin_cycle on the example have returned
C15_Witness ==
    /\ spin.start = Platform_parse(PlatformExample)
    /\ spin.pc = 0
    /\ spin.cycles = 3
    /\ platform # AfterCycles(spin.start, 2)
    /\ grid_to_string(platform.grid) = example_platform_cycles[3]

----------------------------------------------------------------------------
(* y2023/d05.rs: the intervals against the seeds taken one by one *)

\* a value through one map: moved by the line whose source range holds it,
\* unchanged when no line does
ThroughMap(value, transforms) ==
    LET holds(k) == /\ transforms[k].source.a <= value
                    /\ value < transforms[k].source.a + Interval_len(transforms[k].source)
    IN  IF \E k \in 1..Len(transforms) : holds(k)
        THEN LET k == CHOOSE k \in 1..Len(transforms) : holds(k)
             IN  value + transforms[k].destination.a - transforms[k].source.a
        ELSE value

\* a value through the first n maps of an almanac
RECURSIVE ThroughMaps(_, _, _)
ThroughMaps(value, a, n) ==
    IF n = 0 THEN value ELSE ThroughMap(ThroughMaps(value, a, n - 1), a[n])

SeedValues == UNION {almanac.seeds[k].a .. almanac.seeds[k].b : k \in 1..Len(almanac.seeds)}

Locations == {ThroughMaps(value, almanac.a, Len(almanac.a)) : value \in SeedValues}

\* C16 (as claimed): the smallest start among the intervals apply_almanac
\* returns is the smallest of the values the seeds, taken one by one, have
\* after every map.
C16_SmallestStartIsSmallestLocation ==
    almanac.pc = "done" =>
        /\ almanac.answer \in Locations
        /\ \A location \in Locations : almanac.answer <= location

----------------------------------------------------------------------------
(* day22.rs: properties of let_fall *)

\* the columns of cubes a brick stands over
Footprint(brick) == {<<c.x, c.y>> : c \in Cubes(brick)}

BrickIds == DOMAIN bricks.bricks

\* C17: after let_fall no brick is falling (its lowest z is 1 or it has
\* supporters), every supporter of a brick overlaps it in the xy plane with
\* its highest z one below the brick's lowest z, and no brick has moved in x
\* or y, or upward.
C17_EveryBrickSupported ==
    bricks.pc = "done" =>
        \A id \in BrickIds :
            LET brick == bricks.bricks[id]
                was   == bricks.start[id]
            IN  /\ ~is_falling(brick)
                /\ get_min(brick, "z") = 1 \/ brick.support # <<>>
                /\ \A k \in 1..Len(brick.support) :
                      /\ brick.support[k] \in BrickIds
                      /\ Footprint(brick)
                            \cap Footprint(bricks.bricks[brick.support[k]]) # {}
                      /\ get_max(bricks.bricks[brick.support[k]], "z")
                            = get_min(brick, "z") - 1
                /\ brick.head.x = was.head.x /\ brick.head.y = was.head.y
                /\ brick.tail.x = was.tail.x /\ brick.tail.y = was.tail.y
                /\ brick.head.z <= was.head.z /\ brick.tail.z <= was.tail.z
                /\ was.head.z - brick.head.z = was.tail.z - brick.tail.z

\* let_fall has returned with a brick that fell onto two supporters
C17_Witness ==
    /\ bricks.pc = "done"
    /\ \E id \in BrickIds :
          /\ Len(bricks.bricks[id].support) = 2
          /\ bricks.bricks[id].head.z < bricks.start[id].head.z

----------------------------------------------------------------------------
(* day11.rs: the expansion expected of expand_universe *)

\* seq with every element whose index satisfies twice written twice
RECURSIVE Doubling(_, _, _)
Doubling(seq, twice(_), n) ==
    IF n = 0 THEN <<>>
    ELSE Doubling(seq, twice, n - 1)
            \o (IF twice(n) THEN <<seq[n], seq[n]>> ELSE <<seq[n]>>)

\* the lines with every row and every column that holds no galaxy doubled
Expansion(lines) ==
    LET empty_row(r) == \A k \in 1..Len(lines[r]) : lines[r][k] = "."
        empty_column(k) == \A r \in 1..Len(lines) : lines[r][k] = "."
        widened == [r \in 1..Len(lines) |->
                       Doubling(lines[r], empty_column, Len(lines[r]))]
    IN  Doubling(widened, empty_row, Len(lines))

\* C18 (as claimed): expand_universe returns the image in which every row
\* and every column without a galaxy, the last column included, appears
\* twice and every other row and column once, in the original order.
C18_ExpansionDoublesEmptyLines ==
    image.expanded # NotLoaded
        => image.expanded.to_strings = Expansion(image.image.to_strings)

----------------------------------------------------------------------------
(* y2023/d16.rs: re-entry, bounds of the lookups, starts outside the grid *)

\* shoot_beam is about to be entered with a beam state the trace has processed
ReentryPending ==
    /\ Running("shoot_beam")
    /\ Top(stack).pc = "enter"
    /\ within_grid(map, Top(stack).from)
    /\ Contains(get_terrain(map, Top(stack).from).beams, Top(stack).beam)

\* C21: a call of shoot_beam entered with a beam state already processed
\* finds the position in visited and returns with the map as it was: no
\* position added, no direction added to a cell, no further call made.
C21_ReentryChangesNothing ==
    [][ReentryPending =>
          /\ Top(stack).from \in map.visited
          /\ map' = map
          /\ stack' = Pop(stack)]_vars

\* a beam has come round to a state it was processed in
C21_Witness ==
    /\ ReentryPending
    /\ Returned("none")
    /\ Len(get_terrain(map, Top(stack).from).beams) >= 2

\* the indices Vec accepts for the cell at a point
InBounds(m, point) ==
    /\ point.y + 1 \in DOMAIN m.grid
    /\ point.x + 1 \in DOMAIN m.grid[point.y + 1]

\* the step about to be taken looks a cell up (d16.rs:126)
LookupPending ==
    /\ Running("shoot_beam")
    /\ Top(stack).pc = "enter"
    /\ within_grid(map, Top(stack).from)

\* C22: every cell lookup of a trace is made with a point for which
\* 0 <= x < columns and 0 <= y < rows and which indexes a cell of the grid,
\* the entries get_most_amount_of_energized_tiles generates on a grid that
\* is not square included.
C22_LookupsWithinGrid ==
    LookupPending =>
        /\ InBounds(map, Top(stack).from)
        /\ Top(stack).from.x >= 0 /\ Top(stack).from.x < map.columns
        /\ Top(stack).from.y >= 0 /\ Top(stack).from.y < map.rows
        /\ map.rows = Len(map.grid)
        /\ \A r \in 1..Len(map.grid) : Len(map.grid[r]) = map.columns

\* a cell is about to be looked up in a trace that
\* get_most_amount_of_energized_tiles started on a grid that is not square
C22_Witness ==
    /\ LookupPending
    /\ stack[1].fn = "get_most_amount_of_energized_tiles"
    /\ map.rows # map.columns
    /\ Len(calls) >= 2

\* C23: for a start outside the grid get_amount_of_energized_tiles returns 0
\* and leaves no cell energized, no direction in any cell and nothing visited.
C23_OutsideStartGivesZero ==
    (Returned("get_amount_of_energized_tiles") /\ ~within_grid(map, ret.point))
        => /\ ret.value = 0
           /\ map.visited = {}
           /\ \A p \in Cells(map) :
                 /\ ~get_terrain(map, p).energized
                 /\ get_terrain(map, p).beams = <<>>

\* a trace started outside the grid has returned after other traces had
\* energized the map
C23_Witness ==
    /\ Returned("get_amount_of_energized_tiles")
    /\ ~within_grid(map, ret.point)
    /\ Running("get_most_amount_of_energized_tiles")
    /\ Len(calls) >= 2
    /\ FreshAmount(calls[1].point, calls[1].beam) >= 1

\* the '#' of the lines of an energy map, counted over the first n lines
RECURSIVE HashesIn(_, _)
HashesIn(lines, n) ==
    IF n = 0 THEN 0
    ELSE HashesIn(lines, n - 1)
            + Len(SelectSeq(lines[n], LAMBDA ch : ch = "#"))

\* C24: the three records of visitation agree: a position is in visited
\* exactly when its cell is energized, exactly when its cell's beams are not
\* empty; so the energy map has as many '#' as the count returned.
C24_VisitationRecordsAgree ==
    /\ map.visited \subseteq Cells(map)
    /\ \A r \in 1..Len(map.grid) : \A k \in 1..Len(map.grid[r]) :
          /\ (Point_new(k - 1, r - 1) \in map.visited) <=> map.grid[r][k].energized
          /\ map.grid[r][k].energized <=> (map.grid[r][k].beams # <<>>)
    /\ Returned("get_amount_of_energized_tiles")
          => HashesIn(get_energy_map(map), map.rows) = ret.value

\* a trace has returned a count of several cells, some of them crossed twice
C24_Witness ==
    /\ Returned("get_amount_of_energized_tiles")
    /\ ret.value >= 3
    /\ HashesIn(get_energy_map(map), map.rows) = ret.value
    /\ \E p \in map.visited : Len(get_terrain(map, p).beams) >= 2

----------------------------------------------------------------------------
(* y2023/d14.rs: the load after a number of spin cycles *)

\* C25: get_total_load_after_cycles(n) returns, for n >= 1, the total load of
\* the platform that exactly n spin cycles make of the initial platform.
C25_LoadAfterExactlyNCycles ==
    spin.loop.pc = "done" =>
        spin.loop.result =
            Some(get_total_load(AfterCycles(spin.start, spin.loop.number_of_cycles)))

====
